---- MODULE Spec2Model ----
(***************************************************************************)
(* Session / route-authorization layer of the dummy-frontend application.  *)
(*                                                                         *)
(*   src/lib/auth.ts              the localStorage-backed credential store *)
(*   src/app/dashboard/page.tsx   DashboardPage (guard, logout, send mail) *)
(*   src/unnamed/part_002         Home page (guard-less landing page)      *)
(*   src/unnamed/part_000         the User / LoginResponse types           *)
(*                                                                         *)
(* A JavaScript string is a sequence of lexemes, so that concatenation     *)
(* (`Bearer ${token}`), JSON.stringify and JSON.parse are computed and not *)
(* assumed.  A JavaScript value is a record [type, val].                    *)
(***************************************************************************)
EXTENDS Naturals, Sequences, FiniteSets, TLC

VARIABLES
    window,        \* typeof window !== 'undefined' in the executing context
    storage,       \* the context lets the script reach window.localStorage
    localStorage,  \* the per-origin store: key -> Null or a string
    call,          \* the auth.* call last made by a direct caller of the store
    page,          \* the route mounted in this tab
    pending,       \* the navigation requested (router.push, Link) and not yet done
    user,          \* useState<User | null> of the mounted page component
    emailTo,       \* useState('') of DashboardPage
    emailSubject,
    emailMessage,
    emailLoading,  \* useState(false)
    emailSuccess,  \* useState('')
    emailError,    \* useState('')
    inflight,      \* the handleSendEmail invocations suspended at an await
    fetchCount,    \* number of network requests issued so far
    timers,        \* pending setTimeout(() => setEmailSuccess(''), 5000) callbacks
    settled,       \* whether the last step finished a handleSendEmail invocation
    other          \* position of a second same-origin tab inside its handler

vars == <<window, storage, localStorage, call, page, pending, user, emailTo, emailSubject,
          emailMessage, emailLoading, emailSuccess, emailError, inflight,
          fetchCount, timers, settled, other>>

storeVars == <<window, storage, localStorage, call>>

tabVars == <<page, pending, user, emailTo, emailSubject, emailMessage, emailLoading,
             emailSuccess, emailError, inflight, fetchCount, timers, settled, other>>

----------------------------------------------------------------------------
(* Bounds *)

\* network requests one run of the tab may issue
MaxFetch == 2

----------------------------------------------------------------------------
(* JavaScript values *)

Null == [type |-> "null", val |-> <<>>]

Str(s) == [type |-> "string", val |-> s]

Obj(o) == [type |-> "object", val |-> o]

\* an exception leaving the evaluated expression (SyntaxError of JSON.parse)
Throw == [type |-> "throw", val |-> <<>>]

IsNull(v) == v.type = "null"

\* ToBoolean: null and '' are falsy, every object and non-empty string is truthy
Truthy(v) ==
    CASE v.type = "null"   -> FALSE
      [] v.type = "string" -> v.val # <<>>
      [] v.type = "object" -> TRUE
      [] OTHER             -> FALSE

----------------------------------------------------------------------------
(* The User type and its JSON text *)

UserKeys == <<"id", "name", "email", "role", "orgId">>

\* the profiles the remote login endpoint hands out
Profiles ==
    { [id |-> "u1", name |-> "A", email |-> "a@b.com", role |-> "user",  orgId |-> "org1"],
      [id |-> "u2", name |-> "B", email |-> "b@c.com", role |-> "admin", orgId |-> "org2"] }

\* the bearer tokens the remote login endpoint hands out ('' is a string too)
Tokens == { <<>>, <<"tok123">>, <<"tok456">> }

Punct == {"{", "}", ":", ","}

RECURSIVE Members(_, _)
\* the text of the members keys[i..] of object o: k : v , k : v ...
Members(o, keys) ==
    IF keys = <<>> THEN <<>>
    ELSE <<Head(keys), ":", o[Head(keys)]>>
           \o (IF Tail(keys) = <<>> THEN <<>> ELSE <<",">>)
           \o Members(o, Tail(keys))

\* JSON.stringify of a User: the own properties in declaration order
JSONstringify(o) ==
    <<"{">> \o Members(o, SelectSeq(UserKeys, LAMBDA k : k \in DOMAIN o)) \o <<"}">>

\* text is { } or { k : v (, k : v)* }
IsObjectText(text) ==
    /\ Len(text) >= 2
    /\ text[1] = "{"
    /\ text[Len(text)] = "}"
    /\ LET inner == SubSeq(text, 2, Len(text) - 1)
           m     == Len(inner)
       IN  /\ m = 0 \/ (m + 1) % 4 = 0
           /\ \A i \in 1..m :
                CASE i % 4 = 1 -> inner[i] \notin Punct
                  [] i % 4 = 2 -> inner[i] = ":"
                  [] i % 4 = 3 -> inner[i] \notin Punct
                  [] OTHER     -> inner[i] = ","

\* the object an object text denotes; a repeated key keeps its last value
ObjectOf(text) ==
    LET inner == SubSeq(text, 2, Len(text) - 1)
        n     == (Len(inner) + 1) \div 4
        keys  == { inner[4 * (j - 1) + 1] : j \in 1..n }
        last(k) == CHOOSE j \in 1..n :
                      /\ inner[4 * (j - 1) + 1] = k
                      /\ \A h \in 1..n : inner[4 * (h - 1) + 1] = k => h <= j
    IN  [k \in keys |-> inner[4 * (last(k) - 1) + 3]]

\* JSON.parse: the value of a JSON text, or a SyntaxError
JSONparse(text) ==
    IF text = <<"null">> THEN Null
    ELSE IF IsObjectText(text) THEN Obj(ObjectOf(text))
    ELSE Throw

\* strings that may sit under the 'user' key and are no serialized User
Malformed == { <<>>, <<"null">>, <<"undefined">>, <<"{", "id", ":">> }

----------------------------------------------------------------------------
(* src/lib/auth.ts: every operation on a store ls, in the context `window` *)

StoreKeys == {"token", "user"}

\* where storage is denied (site data blocked, sandboxed frame) evaluating
\* `localStorage` raises SecurityError: nothing is read and nothing is written
getItem(ls, k) == IF storage THEN ls[k] ELSE Throw

setItem(ls, k, s) == IF storage THEN [ls EXCEPT ![k] = Str(s)] ELSE ls

removeItem(ls, k) == IF storage THEN [ls EXCEPT ![k] = Null] ELSE ls

\* an auth.* operation reaches `localStorage` past its typeof-window test and
\* has no try/catch: the SecurityError leaves the operation
Raises == window /\ ~storage

\* what the caller of an auth.* operation gets for the value v it computes
Returned(v) == IF Raises THEN Throw ELSE v

setToken(ls, token) == IF window THEN setItem(ls, "token", token) ELSE ls

getToken(ls) == IF window THEN getItem(ls, "token") ELSE Null

\* a removeToken written as localStorage.clear()
removeToken_ClearsStore(ls) ==
    IF window THEN removeItem(removeItem(ls, "token"), "user") ELSE ls

removeToken(ls) == IF window THEN removeItem(ls, "token") ELSE ls

\* localStorage.setItem('user', user) without JSON.stringify stores String(user)
setUser_NoStringify(ls, u) ==
    IF window THEN setItem(ls, "user", <<"[object Object]">>) ELSE ls

setUser(ls, u) == IF window THEN setItem(ls, "user", JSONstringify(u)) ELSE ls

getUser(ls) ==
    IF window
    THEN LET stored == getItem(ls, "user")
         IN  IF stored = Throw THEN Throw
             ELSE IF Truthy(stored) THEN JSONparse(stored.val) ELSE Null
    ELSE Null

removeUser_Skipped(ls) == ls

removeUser(ls) == IF window THEN removeItem(ls, "user") ELSE ls

logout_TokenOnly(ls) == removeToken(ls)

logout(ls) == removeUser(removeToken(ls))

\* an isAuthenticated written as `auth.getToken() !== null`
isAuthenticated_NotNull(ls) == ~IsNull(getToken(ls))

isAuthenticated(ls) == Truthy(getToken(ls))

----------------------------------------------------------------------------
(* The store driven directly: any sequence of auth.* calls on any store *)

Undefined == [type |-> "undefined", val |-> <<>>]

Bool(b) == [type |-> "boolean", val |-> IF b THEN <<"true">> ELSE <<"false">>]

StoreStates ==
    { [k \in StoreKeys |-> IF k = "token" THEN t ELSE u] :
        t \in {Null} \cup { Str(s) : s \in Tokens },
        u \in {Null} \cup { Str(s) : s \in Malformed }
                     \cup { Str(JSONstringify(p)) : p \in Profiles } }

EmptyStore == [k \in StoreKeys |-> Null]

\* no call made yet; `before` is the store the call found, `ret` what it returned
NoCall == [op |-> "none", token |-> <<>>, user |-> <<>>, path |-> <<>>,
           before |-> EmptyStore, ret |-> Undefined]

Called(op, t, u, r) ==
    [op |-> op, token |-> t, user |-> u, path |-> <<>>, before |-> localStorage,
     ret |-> Returned(r)]

\* no navigation requested
NoNav == "none"

\* the second tab is between handlers
OtherIdle == [pc |-> "idle", user |-> <<>>]

\* the last step finished no handleSendEmail invocation
NotSettled == "none"

\* the tab part of the state while only the store is driven
TabIdle ==
    /\ page = "blank"
    /\ pending = NoNav
    /\ user = Null
    /\ emailTo = ""
    /\ emailSubject = ""
    /\ emailMessage = ""
    /\ emailLoading = FALSE
    /\ emailSuccess = ""
    /\ emailError = ""
    /\ inflight = {}
    /\ fetchCount = 0
    /\ timers = 0
    /\ settled = NotSettled
    /\ other = OtherIdle

StoreInit ==
    /\ window = TRUE
    /\ storage = TRUE
    /\ storage = TRUE
    /\ localStorage \in StoreStates
    /\ call = NoCall
    /\ TabIdle

CallSetToken ==
    \E t \in Tokens :
        /\ localStorage' = setToken(localStorage, t)
        /\ call' = Called("setToken", t, <<>>, Undefined)
        /\ UNCHANGED <<window, storage, tabVars>>

CallGetToken ==
    /\ call' = Called("getToken", <<>>, <<>>, getToken(localStorage))
    /\ UNCHANGED <<window, storage, localStorage, tabVars>>

CallRemoveToken ==
    /\ localStorage' = removeToken(localStorage)
    /\ call' = Called("removeToken", <<>>, <<>>, Undefined)
    /\ UNCHANGED <<window, storage, tabVars>>

CallSetUser ==
    \E p \in Profiles :
        /\ localStorage' = setUser(localStorage, p)
        /\ call' = Called("setUser", <<>>, p, Undefined)
        /\ UNCHANGED <<window, storage, tabVars>>

CallGetUser ==
    /\ call' = Called("getUser", <<>>, <<>>, getUser(localStorage))
    /\ UNCHANGED <<window, storage, localStorage, tabVars>>

CallRemoveUser ==
    /\ localStorage' = removeUser(localStorage)
    /\ call' = Called("removeUser", <<>>, <<>>, Undefined)
    /\ UNCHANGED <<window, storage, tabVars>>

CallLogout ==
    /\ localStorage' = logout(localStorage)
    /\ call' = Called("logout", <<>>, <<>>, Undefined)
    /\ UNCHANGED <<window, storage, tabVars>>

CallIsAuthenticated ==
    /\ call' = Called("isAuthenticated", <<>>, <<>>, Bool(isAuthenticated(localStorage)))
    /\ UNCHANGED <<window, storage, localStorage, tabVars>>

\* establish(credential, profile): auth.setToken(t) followed by auth.setUser(p)
CallEstablish ==
    \E t \in Tokens, p \in Profiles :
        /\ localStorage' = setUser(setToken(localStorage, t), p)
        /\ call' = Called("establish", t, p, Undefined)
        /\ UNCHANGED <<window, storage, tabVars>>

StoreNext ==
    \/ CallSetToken
    \/ CallGetToken
    \/ CallRemoveToken
    \/ CallSetUser
    \/ CallGetUser
    \/ CallRemoveUser
    \/ CallLogout
    \/ CallIsAuthenticated
    \/ CallEstablish

SpecStore == StoreInit /\ [][StoreNext]_vars

----------------------------------------------------------------------------
(* The application: one browser tab running the pages, a second tab of the  *)
(* same origin sharing localStorage, and the remote server                 *)

Paths == {"/", "/login", "/dashboard"}

\* what the visitor types into the three required inputs of the email form
FieldValues == [to |-> "x@y.com", subject |-> "s", message |-> "m"]

\* the answers of POST /email/send-custom: the status, whether the body is
\* JSON, and the `error` member of the JSON body ('' when it has none)
Responses ==
    { [status |-> 200, json |-> TRUE,  error |-> ""],
      [status |-> 401, json |-> TRUE,  error |-> "Unauthorized"],
      [status |-> 403, json |-> TRUE,  error |-> ""],
      [status |-> 500, json |-> TRUE,  error |-> "Internal server error"],
      [status |-> 502, json |-> FALSE, error |-> ""] }

\* Response.ok
Ok(resp) == resp.status \in 200..299

\* the accounts that log in while the tab runs (the profile of Scenario A)
Accounts ==
    { [id |-> "u1", name |-> "A", email |-> "a@b.com", role |-> "user", orgId |-> "org1"] }

\* a stored session as an earlier run of the application left it
Sessions == { setItem(setItem(EmptyStore, "token", t), "user", JSONstringify(p)) :
                t \in Tokens \ {<<>>}, p \in Accounts }

Init ==
    /\ window = TRUE
    /\ storage = TRUE
    /\ localStorage \in {EmptyStore} \cup Sessions
    /\ call = NoCall
    /\ page = "blank"
    /\ pending = NoNav
    /\ user = Null
    /\ emailTo = ""
    /\ emailSubject = ""
    /\ emailMessage = ""
    /\ emailLoading = FALSE
    /\ emailSuccess = ""
    /\ emailError = ""
    /\ inflight = {}
    /\ fetchCount = 0
    /\ timers = 0
    /\ settled = NotSettled
    /\ other = OtherIdle

(* ---- mount effects ---- *)

\* what a mount effect leaves: the `user` state, the route pushed, an uncaught throw
Effect(u, push, threw) == [user |-> u, push |-> push, threw |-> threw]

\* DashboardPage useEffect
DashboardEffect(ls) ==
    LET currentUser == getUser(ls)
    IN  IF currentUser.type = "throw" THEN Effect(Null, NoNav, TRUE)
        ELSE IF ~Truthy(currentUser) THEN Effect(Null, "/login", FALSE)
        ELSE Effect(currentUser, NoNav, FALSE)

\* a Home effect that sends the visitor without a profile to /login
HomeEffect_RedirectsAnonymous(ls) ==
    LET currentUser == getUser(ls)
    IN  IF currentUser.type = "throw" THEN Effect(Null, NoNav, TRUE)
        ELSE IF Truthy(currentUser) THEN Effect(currentUser, NoNav, FALSE)
        ELSE Effect(Null, "/login", FALSE)

\* Home useEffect
HomeEffect(ls) ==
    LET currentUser == getUser(ls)
    IN  IF currentUser.type = "throw" THEN Effect(Null, NoNav, TRUE)
        ELSE IF Truthy(currentUser) THEN Effect(currentUser, NoNav, FALSE)
        ELSE Effect(Null, NoNav, FALSE)

\* `if (!user)` of DashboardPage: the dashboard content instead of "Loading..."
DashboardRendersContent == page = "/dashboard" /\ Truthy(user)

\* `user ? ... : ...` of Home: the "You are logged in!" panel
HomeShowsLoggedIn == page = "/" /\ Truthy(user)

\* the route `path` is mounted: the old component is gone (its pending
\* awaits and timers can no longer set state), the new one starts from its
\* useState initial values and runs its mount effect, which leaves `store`
Remount(path, store) ==
    /\ UNCHANGED <<window, storage, call, fetchCount, other>>
    /\ localStorage' = store
    /\ emailTo' = ""
    /\ emailSubject' = ""
    /\ emailMessage' = ""
    /\ emailLoading' = FALSE
    /\ emailSuccess' = ""
    /\ emailError' = ""
    /\ timers' = 0
    /\ settled' = NotSettled
    /\ inflight' = { [r EXCEPT !.live = FALSE] : r \in inflight }
    /\ LET eff == CASE path = "/dashboard" -> DashboardEffect(localStorage)
                    [] path = "/"          -> HomeEffect(localStorage)
                    [] OTHER               -> Effect(Null, NoNav, FALSE)
       IN  /\ page' = IF eff.threw THEN "error" ELSE path
           /\ user' = eff.user
           /\ pending' = eff.push

\* a dashboard effect that ends the session (auth.logout()) when it redirects
Mount_LogoutOnRedirect(path) ==
    Remount(path, IF path = "/dashboard" /\ DashboardEffect(localStorage).push # NoNav
                  THEN logout(localStorage)
                  ELSE localStorage)

\* the mount effects only read the store
Mount(path) == Remount(path, localStorage)

\* the visitor follows a Link or enters a URL
Visit(path) == Mount(path)

\* a navigation requested by router.push takes place
Arrive ==
    /\ pending # NoNav
    /\ Mount(pending)

(* ---- DashboardPage handlers ---- *)

\* a logout in this tab reaches every handleSendEmail invocation in flight
AfterLogout(reqs) == { [r EXCEPT !.afterLogout = TRUE] : r \in reqs }

\* a handleLogout that requests /login without auth.logout()
DashboardLogout_KeepsSession ==
    /\ DashboardRendersContent
    /\ pending' = "/login"
    /\ inflight' = AfterLogout(inflight)
    /\ UNCHANGED <<storeVars, page, user, emailTo, emailSubject, emailMessage,
                   emailLoading, emailSuccess, emailError, fetchCount, timers, other>>
    /\ settled' = NotSettled

\* DashboardPage handleLogout
DashboardLogout ==
    /\ DashboardRendersContent
    /\ localStorage' = logout(localStorage)
    /\ pending' = "/login"
    /\ inflight' = AfterLogout(inflight)
    /\ UNCHANGED <<window, storage, call, page, user, emailTo, emailSubject, emailMessage,
                   emailLoading, emailSuccess, emailError, fetchCount, timers, other>>
    /\ settled' = NotSettled

\* Home handleLogout
HomeLogout ==
    /\ HomeShowsLoggedIn
    /\ localStorage' = logout(localStorage)
    /\ user' = Null
    /\ pending' = "/login"
    /\ inflight' = AfterLogout(inflight)
    /\ UNCHANGED <<window, storage, call, page, emailTo, emailSubject, emailMessage,
                   emailLoading, emailSuccess, emailError, fetchCount, timers, other>>
    /\ settled' = NotSettled

\* the inputs and the submit button carry disabled={emailLoading}
FormEnabled == DashboardRendersContent /\ ~emailLoading

\* onChange of the three inputs
SetEmailTo ==
    /\ FormEnabled
    /\ \E v \in {"", FieldValues.to} : emailTo' = v
    /\ UNCHANGED <<storeVars, page, pending, user, emailSubject, emailMessage,
                   emailLoading, emailSuccess, emailError, inflight, fetchCount,
                   timers, other>>
    /\ settled' = NotSettled

SetEmailSubject ==
    /\ FormEnabled
    /\ \E v \in {"", FieldValues.subject} : emailSubject' = v
    /\ UNCHANGED <<storeVars, page, pending, user, emailTo, emailMessage,
                   emailLoading, emailSuccess, emailError, inflight, fetchCount,
                   timers, other>>
    /\ settled' = NotSettled

SetEmailMessage ==
    /\ FormEnabled
    /\ \E v \in {"", FieldValues.message} : emailMessage' = v
    /\ UNCHANGED <<storeVars, page, pending, user, emailTo, emailSubject,
                   emailLoading, emailSuccess, emailError, inflight, fetchCount,
                   timers, other>>
    /\ settled' = NotSettled

\* `if (!token)` of handleSendEmail, written as a comparison with null
NotAuthenticated_NullOnly(token) == IsNull(token)

\* `if (!token)` of handleSendEmail
NotAuthenticated(token) == ~Truthy(token)

\* a fetch whose Authorization header is built without the token
Request_NoBearer(token) ==
    [authorization |-> <<"Bearer ">>,
     body |-> [to |-> emailTo, subject |-> emailSubject, message |-> emailMessage]]

\* the fetch of handleSendEmail: its Authorization header and its JSON body
Request(token) ==
    [authorization |-> <<"Bearer ">> \o token.val,
     body |-> [to |-> emailTo, subject |-> emailSubject, message |-> emailMessage]]

\* the last step finished an invocation: "stale" when a logout of this tab
\* ran between its start and its end, "fresh" otherwise
Settled(afterLogout) == IF afterLogout THEN "stale" ELSE "fresh"

\* a handleSendEmail without setEmailSuccess('') at its start
HandleSendEmail_KeepsSuccess ==
    /\ FormEnabled
    /\ emailTo # "" /\ emailSubject # "" /\ emailMessage # ""
    /\ LET token == getToken(localStorage)
       IN  IF NotAuthenticated(token)
           THEN /\ emailError' = "Not authenticated"
                /\ emailLoading' = FALSE
                /\ settled' = Settled(FALSE)
                /\ UNCHANGED <<inflight, fetchCount>>
           ELSE /\ fetchCount < MaxFetch
                /\ emailError' = ""
                /\ emailLoading' = TRUE
                /\ fetchCount' = fetchCount + 1
                /\ inflight' = inflight \cup
                     { [id |-> fetchCount + 1, live |-> TRUE, phase |-> "fetch",
                        request |-> Request(token), afterLogout |-> FALSE] }
                /\ settled' = NotSettled
    /\ UNCHANGED <<storeVars, page, pending, user, emailTo, emailSubject,
                   emailMessage, emailSuccess, timers, other>>

\* handleSendEmail from the submit event to its first await (or to its end,
\* when it throws before the fetch)
HandleSendEmail ==
    /\ FormEnabled
    /\ emailTo # "" /\ emailSubject # "" /\ emailMessage # ""
    /\ LET token == getToken(localStorage)
       IN  IF NotAuthenticated(token)
           THEN /\ emailError' = "Not authenticated"
                /\ emailLoading' = FALSE
                /\ settled' = Settled(FALSE)
                /\ UNCHANGED <<inflight, fetchCount>>
           ELSE /\ fetchCount < MaxFetch
                /\ emailError' = ""
                /\ emailLoading' = TRUE
                /\ fetchCount' = fetchCount + 1
                /\ inflight' = inflight \cup
                     { [id |-> fetchCount + 1, live |-> TRUE, phase |-> "fetch",
                        request |-> Request(token), afterLogout |-> FALSE] }
                /\ settled' = NotSettled
    /\ emailSuccess' = ""
    /\ UNCHANGED <<storeVars, page, pending, user, emailTo, emailSubject,
                   emailMessage, timers, other>>

\* a handleSendEmail with its finally block but no catch block: the exception
\* leaves the handler and no message is set
Fail_Uncaught(r, error) ==
    /\ inflight' = inflight \ {r}
    /\ settled' = Settled(r.afterLogout)
    /\ IF r.live
       THEN emailLoading' = FALSE /\ UNCHANGED emailError
       ELSE UNCHANGED <<emailError, emailLoading>>
    /\ UNCHANGED <<emailTo, emailSubject, emailMessage, emailSuccess, timers>>

\* a handleSendEmail with its catch block but no finally block: the loading
\* flag stays set after a failure
Fail_NoFinally(r, error) ==
    /\ inflight' = inflight \ {r}
    /\ settled' = Settled(r.afterLogout)
    /\ IF r.live
       THEN emailError' = error /\ UNCHANGED emailLoading
       ELSE UNCHANGED <<emailError, emailLoading>>
    /\ UNCHANGED <<emailTo, emailSubject, emailMessage, emailSuccess, timers>>

\* a catch block that also empties the three form fields
Fail_ClearsForm(r, error) ==
    /\ inflight' = inflight \ {r}
    /\ settled' = Settled(r.afterLogout)
    /\ IF r.live
       THEN /\ emailError' = error /\ emailLoading' = FALSE
            /\ emailTo' = "" /\ emailSubject' = "" /\ emailMessage' = ""
       ELSE UNCHANGED <<emailError, emailLoading, emailTo, emailSubject,
                        emailMessage>>
    /\ UNCHANGED <<emailSuccess, timers>>

\* the catch and finally blocks; the state setters of an invocation reach
\* the component only while the component that started it is still mounted
Fail(r, error) ==
    /\ inflight' = inflight \ {r}
    /\ settled' = Settled(r.afterLogout)
    /\ IF r.live
       THEN emailError' = error /\ emailLoading' = FALSE
       ELSE UNCHANGED <<emailError, emailLoading>>
    /\ UNCHANGED <<emailTo, emailSubject, emailMessage, emailSuccess, timers>>

\* a handler that answers a rejected fetch by issuing the request again
FetchRejects_Retries(r) ==
    /\ r.phase = "fetch"
    /\ fetchCount < MaxFetch
    /\ fetchCount' = fetchCount + 1
    /\ inflight' = (inflight \ {r}) \cup {[r EXCEPT !.id = fetchCount + 1]}
    /\ UNCHANGED <<storeVars, page, pending, user, emailTo, emailSubject,
                   emailMessage, emailLoading, emailSuccess, emailError,
                   timers, other>>
    /\ settled' = NotSettled

\* `await fetch(...)` rejects (network unreachable, timeout, refused): the
\* catch block takes the TypeError's message, finally clears the loading flag
FetchRejects(r) ==
    /\ r.phase = "fetch"
    /\ Fail(r, "Failed to fetch")
    /\ UNCHANGED <<storeVars, page, pending, user, fetchCount, other>>

\* `await fetch(...)` resolves: the invocation goes on to `await response.json()`
FetchResolves(r) ==
    /\ r.phase = "fetch"
    /\ inflight' = (inflight \ {r}) \cup {[r EXCEPT !.phase = "json"]}
    /\ UNCHANGED <<storeVars, page, pending, user, emailTo, emailSubject,
                   emailMessage, emailLoading, emailSuccess, emailError,
                   fetchCount, timers, other>>
    /\ settled' = NotSettled

\* `data.error || 'Failed to send email'`
ErrorMessage(resp) == IF resp.error # "" THEN resp.error ELSE "Failed to send email"

\* handleSendEmail from `await response.json()` to its end, on the answer
\* resp of the server, leaving `store`
Interpret(r, resp, store) ==
    /\ r.phase = "json"
    /\ localStorage' = store
    /\ IF ~resp.json
       THEN Fail(r, "Unexpected token < in JSON at position 0")
       ELSE IF ~Ok(resp)
       THEN Fail(r, ErrorMessage(resp))
       ELSE /\ inflight' = inflight \ {r}
            /\ settled' = Settled(r.afterLogout)
            /\ IF r.live
               THEN /\ emailSuccess' = "Email sent successfully!"
                    /\ emailTo' = ""
                    /\ emailSubject' = ""
                    /\ emailMessage' = ""
                    /\ timers' = timers + 1
                    /\ emailLoading' = FALSE
               ELSE UNCHANGED <<emailTo, emailSubject, emailMessage, emailSuccess,
                                timers, emailLoading>>
            /\ UNCHANGED emailError
    /\ UNCHANGED <<window, storage, call, page, pending, user, fetchCount, other>>

\* a response handler that puts the token it was sent with back into the store
JsonSettles_RestoresToken(r, resp) ==
    Interpret(r, resp, setToken(localStorage, Tail(r.request.authorization)))

\* handleSendEmail after `await response.json()`: it never touches the store
JsonSettles(r, resp) == Interpret(r, resp, localStorage)

\* setTimeout(() => setEmailSuccess(''), 5000) fires
TimerFires ==
    /\ timers > 0
    /\ timers' = timers - 1
    /\ emailSuccess' = ""
    /\ UNCHANGED <<storeVars, page, pending, user, emailTo, emailSubject,
                   emailMessage, emailLoading, emailError, inflight, fetchCount, other>>
    /\ settled' = NotSettled

(* ---- the login page (not part of the sources at hand) ---- *)

\* a successful login on /login: establish(credential, profile), then the
\* visitor is sent to the dashboard
LoginSubmit ==
    /\ page = "/login"
    /\ \E t \in Tokens, p \in Accounts :
          localStorage' = setUser(setToken(localStorage, t), p)
    /\ pending' = "/dashboard"
    /\ UNCHANGED <<window, storage, call, page, user, emailTo, emailSubject, emailMessage,
                   emailLoading, emailSuccess, emailError, inflight, fetchCount,
                   timers, other>>
    /\ settled' = NotSettled

(* ---- a second tab of the same origin ---- *)
(* localStorage is atomic per call only: between two calls of one handler  *)
(* of that tab, this tab may run.                                          *)

tabOnly == <<window, storage, call, page, pending, user, emailTo, emailSubject, emailMessage,
             emailLoading, emailSuccess, emailError, inflight, fetchCount, timers>>

\* handleLogout in the second tab, which mounted on the stored profile and so
\* shows its Logout button: auth.logout() has done auth.removeToken()
OtherLogoutRemoveToken ==
    /\ settled' = NotSettled
    /\ other.pc = "idle"
    /\ Truthy(getUser(localStorage))
    /\ localStorage' = removeToken(localStorage)
    /\ other' = [pc |-> "logout", user |-> <<>>]
    /\ UNCHANGED tabOnly

\* handleLogout in the second tab: auth.logout() has done auth.removeUser()
OtherLogoutRemoveUser ==
    /\ settled' = NotSettled
    /\ other.pc = "logout"
    /\ localStorage' = removeUser(localStorage)
    /\ other' = OtherIdle
    /\ UNCHANGED tabOnly

\* a login in the second tab: auth.setToken(token) done
OtherLoginSetToken ==
    /\ settled' = NotSettled
    /\ other.pc = "idle"
    /\ \E t \in Tokens, p \in Accounts :
          /\ localStorage' = setToken(localStorage, t)
          /\ other' = [pc |-> "login", user |-> p]
    /\ UNCHANGED tabOnly

\* a login in the second tab: auth.setUser(user) done
OtherLoginSetUser ==
    /\ settled' = NotSettled
    /\ other.pc = "login"
    /\ localStorage' = setUser(localStorage, other.user)
    /\ other' = OtherIdle
    /\ UNCHANGED tabOnly

Next ==
    \/ \E path \in Paths : Visit(path)
    \/ Arrive
    \/ DashboardLogout
    \/ HomeLogout
    \/ SetEmailTo
    \/ SetEmailSubject
    \/ SetEmailMessage
    \/ HandleSendEmail
    \/ \E r \in inflight : FetchRejects(r)
    \/ \E r \in inflight : FetchResolves(r)
    \/ \E r \in inflight, resp \in Responses : JsonSettles(r, resp)
    \/ TimerFires
    \/ LoginSubmit
    \/ OtherLogoutRemoveToken
    \/ OtherLogoutRemoveUser
    \/ OtherLoginSetToken
    \/ OtherLoginSetUser

Spec == Init /\ [][Next]_vars

----------------------------------------------------------------------------
(* The email form of one mounted dashboard against a server that is free in *)
(* the text of the `error` member it returns                               *)

\* the body of an error answer is written by the server: its `error` member
\* may be any text, the text of a failure of the server's own included
Answers ==
    Responses \cup
        { [status |-> 500, json |-> TRUE, error |-> "Failed to fetch"] }

SendNext ==
    \/ Visit("/dashboard")
    \/ SetEmailTo
    \/ SetEmailSubject
    \/ SetEmailMessage
    \/ HandleSendEmail
    \/ \E r \in inflight : FetchRejects(r)
    \/ \E r \in inflight : FetchResolves(r)
    \/ \E r \in inflight, resp \in Answers : JsonSettles(r, resp)
    \/ TimerFires

SpecSend == Init /\ [][SendNext]_vars

----------------------------------------------------------------------------
(* The pages without the email form: mounts, logouts and logins, from every *)
(* store the auth.* writes can leave                                        *)

\* the values the 'user' entry takes: absent, or a serialized profile
UserEntries == {Null} \cup { Str(JSONstringify(p)) : p \in Profiles }

WrittenStores ==
    { [k \in StoreKeys |-> IF k = "token" THEN t ELSE u] :
        t \in {Null} \cup { Str(s) : s \in Tokens }, u \in UserEntries }

PagesInit ==
    /\ window = TRUE
    /\ storage = TRUE
    /\ localStorage \in WrittenStores
    /\ call = NoCall
    /\ TabIdle

PagesNext ==
    \/ \E path \in Paths : Visit(path)
    \/ Arrive
    \/ DashboardLogout
    \/ HomeLogout
    \/ LoginSubmit
    \/ OtherLogoutRemoveToken
    \/ OtherLogoutRemoveUser
    \/ OtherLoginSetToken
    \/ OtherLoginSetUser

SpecPages == PagesInit /\ [][PagesNext]_vars

----------------------------------------------------------------------------
(* The store where the persistence medium is unavailable: no window (server *)
(* render), or a window whose storage is denied                            *)

DegradedInit ==
    /\ window \in BOOLEAN
    /\ storage \in BOOLEAN
    /\ ~(window /\ storage)
    /\ localStorage \in StoreStates
    /\ call = NoCall
    /\ TabIdle

SpecDegraded == DegradedInit /\ [][StoreNext]_vars

----------------------------------------------------------------------------
(* The route guard of middleware.ts (not part of the sources at hand; the   *)
(* README describes it): a path is the sequence of its segments            *)

GuardPaths ==
    { <<>>, <<"login">>, <<"signup">>, <<"dashboard">>,
      <<"dashboard", "settings">>, <<"login", "help">> }

\* protected: ["/dashboard", "/dashboard/*"]
IsProtected(path) == Len(path) >= 1 /\ path[1] = "dashboard"

\* authOnlyRedirectFrom: ["/login"]
IsAuthOnlyRedirectFrom(path) == path = <<"login">>

\* the guard looks at the presence of the credential, not at its validity
CredentialPresent(ls) == ~IsNull(ls["token"])

\* a guard without the rule for the login path
RouteGuard_NoLoginRule(path, credentialPresent) ==
    IF IsProtected(path) /\ ~credentialPresent THEN "RedirectToLogin"
    ELSE "Allow"

\* the decision table of the guard, rules 1 to 3 in order
RouteGuard(path, credentialPresent) ==
    IF IsProtected(path) /\ ~credentialPresent THEN "RedirectToLogin"
    ELSE IF IsAuthOnlyRedirectFrom(path) /\ credentialPresent
    THEN "RedirectToAuthenticatedHome"
    ELSE "Allow"

\* a navigation to `path` passes the guard
CallRouteGuard(path) ==
    /\ call' = [op |-> "RouteGuard", token |-> <<>>, user |-> <<>>, path |-> path,
                before |-> localStorage,
                ret |-> Str(<<RouteGuard(path, CredentialPresent(localStorage))>>)]
    /\ UNCHANGED <<window, storage, localStorage, tabVars>>

GuardNext == \E path \in GuardPaths : CallRouteGuard(path)

SpecGuard == StoreInit /\ [][GuardNext]_vars

----------------------------------------------------------------------------
(* Claims about the store, checked under SpecStore *)

Unpaired(ls) == IsNull(ls["token"]) # IsNull(ls["user"])

\* C2 (P2 pairing): right after establish(c, p) both getToken() and getUser()
\* are non-absent, and right after logout() both are absent, whatever the
\* store held before the call.
C2_Pairing ==
    /\ call.op = "establish" =>
          /\ getToken(localStorage).type = "string"
          /\ getUser(localStorage).type = "object"
    /\ call.op = "logout" =>
          /\ IsNull(getToken(localStorage))
          /\ IsNull(getUser(localStorage))

\* establish has run on a store that held the user entry alone
C2_Witness ==
    /\ call.op = "establish"
    /\ IsNull(call.before["token"])
    /\ ~IsNull(call.before["user"])
    /\ getToken(localStorage).type = "string"
    /\ getUser(localStorage).type = "object"

\* C4: right after logout() the session reads Anonymous from every prior
\* store, also one holding a single entry or a malformed profile:
\* isAuthenticated() is false and getUser() is null.
C4_AnonymousAfterLogout ==
    call.op = "logout" =>
        /\ ~isAuthenticated(localStorage)
        /\ IsNull(getUser(localStorage))

\* logout has run on a store that held the token alone
C4_Witness ==
    /\ call.op = "logout"
    /\ Truthy(call.before["token"])
    /\ IsNull(call.before["user"])
    /\ ~isAuthenticated(localStorage)
    /\ IsNull(getUser(localStorage))

\* C5: right after setToken(t); setUser(p), getToken() yields t and getUser()
\* yields an object with the fields of p and their values, for every token
\* and every profile.
C5_EstablishRoundTrip ==
    call.op = "establish" =>
        /\ getToken(localStorage) = Str(call.token)
        /\ getUser(localStorage).type = "object"
        /\ DOMAIN getUser(localStorage).val = DOMAIN call.user
        /\ \A k \in DOMAIN call.user : getUser(localStorage).val[k] = call.user[k]

\* establish has run with the token and the profile of Scenario A
C5_Witness ==
    /\ call.op = "establish"
    /\ call.token = <<"tok123">>
    /\ call.user = [id |-> "u1", name |-> "A", email |-> "a@b.com",
                     role |-> "user", orgId |-> "org1"]
    /\ getToken(localStorage) = Str(<<"tok123">>)
    /\ getUser(localStorage) = Obj(call.user)

----------------------------------------------------------------------------
(* Claims about the application, checked under Spec *)

TokenAbsent == IsNull(getItem(localStorage, "token"))

UserAbsent == IsNull(getItem(localStorage, "user"))

\* C1 (Invariant I1): at every point where an observer reads the store while
\* no login is in progress (the mount effect of the home page or of the
\* dashboard calls auth.getUser()), the token entry and the user entry are
\* both present or both absent.
C1_PairedWhenObserved ==
    [][ ((Mount("/") \/ Mount("/dashboard")) /\ other.pc # "login") =>
            ~Unpaired(localStorage) ]_vars

\* C3: while the token entry is absent, and no logout or navigation is under
\* way, neither the dashboard content nor the logged-in panel of the home
\* page is on screen.
C3_TokenIsSoleAuthority ==
    (TokenAbsent /\ other.pc = "idle" /\ pending = NoNav) =>
        (~DashboardRendersContent /\ ~HomeShowsLoggedIn)

\* C6 (P4): a step in which handleSendEmail interprets a 401 or 403 answer
\* leaves the session Anonymous: both entries are absent after it.
C6_RejectedTerminates ==
    [][ \A r \in inflight, resp \in Responses :
          (resp.status \in {401, 403} /\ JsonSettles(r, resp)) =>
              (TokenAbsent' /\ UserAbsent') ]_vars

\* C7 (P3): handleSendEmail started while getToken() is null or '' issues
\* no network request and ends at once with the error 'Not authenticated'.
C7_FailFast ==
    [][ (HandleSendEmail /\ ~Truthy(getToken(localStorage))) =>
            /\ inflight' = inflight
            /\ fetchCount' = fetchCount
            /\ emailError' = "Not authenticated"
            /\ emailLoading' = FALSE ]_vars

\* handleSendEmail has just ended unauthenticated on a store without token
C7_Witness ==
    /\ settled = "fresh"
    /\ TokenAbsent
    /\ emailError = "Not authenticated"
    /\ ~emailLoading
    /\ inflight = {}
    /\ fetchCount = 0

\* C8: every request issued carries the Authorization header 'Bearer ' followed
\* by the token the store holds at the step that issues it, and a request is
\* issued only by such a step.
C8_BearerOfStoredToken ==
    [][ fetchCount' # fetchCount =>
            /\ getToken(localStorage).type = "string"
            /\ \E r \in inflight' \ inflight :
                  /\ r.id = fetchCount'
                  /\ r.request.authorization
                       = <<"Bearer ">> \o getToken(localStorage).val
            /\ \A r \in inflight' \ inflight : r.id = fetchCount' ]_vars

\* a request sent with tok456 is in flight while the store holds another token
C8_Witness ==
    \E r \in inflight :
        /\ r.phase = "fetch"
        /\ r.request.authorization = <<"Bearer ", "tok456">>
        /\ getToken(localStorage) = Str(<<"tok123">>)

\* an event of invocation r (its fetch or its response.json() settling) is
\* handled in this step
Handled(r) == \A q \in inflight' : q.id # r.id \/ q.phase # r.phase

\* C9: the step that handles the response of a send during which this tab
\* logged out leaves the token and the user entry absent when they were.
C9_NoStaleReestablish ==
    [][ (\E r \in inflight : r.afterLogout /\ Handled(r)) =>
            ((TokenAbsent /\ UserAbsent) => (TokenAbsent' /\ UserAbsent')) ]_vars

\* a send during which this tab logged out has just finished, store empty
C9_Witness ==
    /\ settled = "stale"
    /\ TokenAbsent
    /\ UserAbsent
    /\ emailSuccess = "Email sent successfully!"

\* C10 (RouteGuard rule 1): a mount of /dashboard while the token entry is
\* absent never renders the dashboard content and requests /login.
C10_ProtectedRedirectsToLogin ==
    [][ (Mount("/dashboard") /\ TokenAbsent) =>
            (~DashboardRendersContent' /\ pending' = "/login") ]_vars

----------------------------------------------------------------------------
(* Claims about the route guard, checked under SpecGuard *)

\* C11 (RouteGuard rule 2): a navigation to /login made while the credential
\* is present is answered RedirectToAuthenticatedHome, never Allow.
C11_LoginRedirectsAuthenticated ==
    (call.op = "RouteGuard" /\ call.path = <<"login">>
        /\ CredentialPresent(call.before)) =>
            call.ret = Str(<<"RedirectToAuthenticatedHome">>)

\* the guard has answered a navigation to /login made with a token stored
C11_Witness ==
    /\ call.op = "RouteGuard"
    /\ call.path = <<"login">>
    /\ call.before["token"] = Str(<<"tok123">>)
    /\ call.ret = Str(<<"RedirectToAuthenticatedHome">>)

----------------------------------------------------------------------------
(* Claims about the mounts and the logouts, checked under SpecPages *)

\* C12 (RouteGuard rule 3): a mount of the home page, with or without a
\* stored credential, shows the home page, requests no navigation and
\* leaves the store as it found it.
C12_HomeAlwaysAllowed ==
    [][ Mount("/") =>
            (page' = "/" /\ pending' = NoNav /\ localStorage' = localStorage) ]_vars

\* the home page is mounted for a visitor without a session, no navigation
\* requested
C12_Witness ==
    /\ page = "/"
    /\ pending = NoNav
    /\ TokenAbsent
    /\ UserAbsent
    /\ ~HomeShowsLoggedIn

\* the same store with another value under 'user' (token entry untouched)
WithUser(ls, u) == [ls EXCEPT !["user"] = u]

\* C13 (I2): the decision of the dashboard guard depends on the path and on
\* the presence of the token only: in every state, the guard decides the
\* same on the store at hand and on that store with any other user entry.
C13_DecisionIgnoresProfile ==
    \A u \in UserEntries :
        /\ DashboardEffect(WithUser(localStorage, u)).push
              = DashboardEffect(localStorage).push
        /\ Truthy(DashboardEffect(WithUser(localStorage, u)).user)
              = Truthy(DashboardEffect(localStorage).user)

\* what the guard of the page at `path` decides on the store ls
GuardDecision(path, ls) ==
    CASE path = "/dashboard" -> DashboardEffect(ls).push
      [] path = "/"          -> HomeEffect(ls).push
      [] OTHER               -> NoNav

----------------------------------------------------------------------------
(* Claims about the store without its medium, checked under SpecDegraded *)

\* C15: while the persistence medium is unavailable every auth.* call returns
\* without raising, leaves the store as it was, and every read answers
\* absent (getToken, getUser) or false (isAuthenticated).
C15_DegradedIsSilent ==
    call.op # "none" =>
        /\ call.ret # Throw
        /\ localStorage = call.before
        /\ call.op \in {"getToken", "getUser"} => call.ret = Null
        /\ call.op = "isAuthenticated" => call.ret = Bool(FALSE)

----------------------------------------------------------------------------
(* More claims about the store, checked under SpecStore *)

\* the entry holds a string that is not the serialization of a User
NotSerializedUser(entry) ==
    /\ entry.type = "string"
    /\ entry.val \notin { JSONstringify(p) : p \in Profiles }

\* C16: getUser() on a store whose user entry is not a serialized User
\* returns absent and does not raise.
C16_MalformedProfileIsAbsent ==
    (call.op = "getUser" /\ NotSerializedUser(call.before["user"])) =>
        call.ret = Null

----------------------------------------------------------------------------
(* More claims about the pages, checked under Spec *)

\* C17: a step that handles the outcome of a send (fetch rejected, fetch
\* resolved, body read) issues no further request and writes no entry of
\* the store, and no step issues more than one request.
C17_NoRetryNoRefresh ==
    [][ /\ (\E r \in inflight : Handled(r)) =>
              (fetchCount' = fetchCount /\ localStorage' = localStorage)
        /\ fetchCount' \in {fetchCount, fetchCount + 1}
        /\ fetchCount' # fetchCount => localStorage' = localStorage ]_vars

\* a 401 answer to the only request issued has been handled, the token
\* that was sent is still the stored one
C17_Witness ==
    /\ settled = "fresh"
    /\ fetchCount = 1
    /\ inflight = {}
    /\ emailError = "Unauthorized"
    /\ getToken(localStorage) = Str(<<"tok123">>)

\* C18: once the store is empty, the next read of the session by the page
\* (the getToken() of handleSendEmail) leaves a page that no longer shows
\* the authenticated view.
C18_RecomputedOnRead ==
    [][ (HandleSendEmail /\ TokenAbsent /\ UserAbsent) =>
            ~DashboardRendersContent' ]_vars

\* invocation r of handleSendEmail ends in this step
Finished(r) == \A q \in inflight' : q.id # r.id

\* C19: every end of a handleSendEmail invocation whose component is still
\* mounted (missing token, fetch rejected, non-2xx answer, unparsable body,
\* or success) leaves the page where it is with the loading flag cleared
\* and exactly one of the error and success messages set.
C19_FailureIsAMessage ==
    [][ /\ (\E r \in inflight : r.live /\ Finished(r)) =>
              /\ page' = page
              /\ emailLoading' = FALSE
              /\ (emailError' # "") # (emailSuccess' # "")
        /\ (HandleSendEmail /\ inflight' = inflight) =>
              /\ page' = page
              /\ emailLoading' = FALSE
              /\ emailError' # "" /\ emailSuccess' = "" ]_vars

\* a send answered with a body that is not JSON has ended in the message
C19_Witness ==
    /\ settled = "fresh"
    /\ page = "/dashboard"
    /\ ~emailLoading
    /\ emailError = "Unexpected token < in JSON at position 0"
    /\ emailSuccess = ""

\* C21: the step that reads the body of an answer leaves, for a non-success
\* status, the `error` member of the body when it has one and 'Failed to
\* send email' otherwise, with no success message; for a success status it
\* leaves the success message and no error message.
C21_ResponseInterpretation ==
    [][ \A r \in inflight, resp \in Responses :
          (r.live /\ JsonSettles(r, resp)) =>
              IF Ok(resp)
              THEN emailSuccess' = "Email sent successfully!" /\ emailError' = ""
              ELSE /\ emailSuccess' = ""
                   /\ emailError' = IF resp.json /\ resp.error # ""
                                    THEN resp.error
                                    ELSE "Failed to send email" ]_vars

\* C23: at most one handleSendEmail invocation is in flight.
C23_AtMostOneInFlight == Cardinality(inflight) <= 1

\* C24: the loading flag is set exactly while an invocation started by the
\* mounted component is in flight: once its network call has settled and
\* the invocation has ended, whatever the outcome, the flag is cleared.
C24_LoadingWhileInFlight == emailLoading <=> (\E r \in inflight : r.live)

\* a send that failed in transport has ended, the form is usable again
C24_Witness ==
    /\ settled = "fresh"
    /\ inflight = {}
    /\ emailError = "Failed to fetch"
    /\ ~emailLoading
    /\ FormEnabled

\* C25: the success message and the error message are never both non-empty.
C25_OneMessage == ~(emailSuccess # "" /\ emailError # "")

\* the second send of the tab has just succeeded: its message is shown and
\* no error message with it
C25_Witness ==
    /\ settled = "fresh"
    /\ fetchCount = 2
    /\ emailSuccess = "Email sent successfully!"
    /\ emailError = ""

\* C26: a timer that clears a success message on display is the only timer
\* pending, the one scheduled by the send that set the message (timers
\* fire in the order they were scheduled: with two pending, the one that
\* fires belongs to the earlier send and the message to the later one).
C26_TimerClearsOwnMessage ==
    [][ (TimerFires /\ emailSuccess # "") => timers = 1 ]_vars

\* C27: the end of an invocation never changes the store; it empties the
\* three form fields when it sets the success message and leaves them as
\* they were otherwise; a submit leaves the store and the fields alone.
C27_FailedSendFrame ==
    [][ /\ \A r \in inflight : Finished(r) =>
              /\ localStorage' = localStorage
              /\ IF r.live /\ emailSuccess' # ""
                 THEN emailTo' = "" /\ emailSubject' = "" /\ emailMessage' = ""
                 ELSE UNCHANGED <<emailTo, emailSubject, emailMessage>>
        /\ HandleSendEmail =>
              UNCHANGED <<localStorage, emailTo, emailSubject, emailMessage>> ]_vars

\* a send answered 500 has ended: the form still holds what was typed and
\* the token is still stored
C27_Witness ==
    /\ settled = "fresh"
    /\ emailError = "Internal server error"
    /\ emailTo = FieldValues.to
    /\ emailSubject = FieldValues.subject
    /\ emailMessage = FieldValues.message
    /\ ~TokenAbsent

----------------------------------------------------------------------------
(* A claim about the email form, checked under SpecSend *)

\* C22: a send that the server answered with a non-success status never
\* ends in the result of a send that failed in transport.
C22_TransportDistinct ==
    [][ \A r \in inflight, resp \in Answers :
          (r.live /\ JsonSettles(r, resp) /\ ~Ok(resp)) =>
              emailError' # "Failed to fetch" ]_vars

----------------------------------------------------------------------------
(* Claims about single operations of the store, checked under SpecStore *)

\* C28: isAuthenticated() returns true exactly when the token entry holds a
\* non-empty string, whatever the user entry holds.
C28_AuthenticatedIffToken ==
    call.op = "isAuthenticated" =>
        call.ret = Bool(/\ call.before["token"].type = "string"
                        /\ call.before["token"].val # <<>>)

\* isAuthenticated() has answered false on a store holding the empty token
\* and a user entry
C28_Witness ==
    /\ call.op = "isAuthenticated"
    /\ call.before["token"] = Str(<<>>)
    /\ ~IsNull(call.before["user"])
    /\ call.ret = Bool(FALSE)

\* C29: setToken and removeToken leave the user entry as it was, setUser
\* and removeUser leave the token entry as it was, and getToken, getUser
\* and isAuthenticated leave the whole store as it was.
C29_SingleEntryFrame ==
    /\ call.op \in {"setToken", "removeToken"} =>
          localStorage["user"] = call.before["user"]
    /\ call.op \in {"setUser", "removeUser"} =>
          localStorage["token"] = call.before["token"]
    /\ call.op \in {"getToken", "getUser", "isAuthenticated"} =>
          localStorage = call.before

\* removeToken has run on a store holding both entries: the token is gone,
\* the user entry is the one it found
C29_Witness ==
    /\ call.op = "removeToken"
    /\ call.before["token"] = Str(<<"tok123">>)
    /\ ~IsNull(call.before["user"])
    /\ IsNull(localStorage["token"])
    /\ localStorage["user"] = call.before["user"]

====
